---- MODULE Spec2Model ----
(***************************************************************************)
(* Model of the Highlight Text plugin for Gedit                            *)
(* (trunk/highlighttext/highlight_text.py).                                *)
(*                                                                         *)
(* The plugin root (HighlightTextPlugin) keeps a dictionary from window    *)
(* to per-window helper (HighlightTextWindowHelper).  The host (Gedit)     *)
(* calls activate / deactivate / update_ui on the root and fires the menu  *)
(* callback of an inserted, sensitive action group.  Everything runs on    *)
(* the host's single UI thread, so every host call is one atomic action.   *)
(*                                                                         *)
(* Host objects the plugin talks to (gtk.UIManager, gtk.ActionGroup,       *)
(* gedit.Document, gedit.View) are modelled through the calls the plugin   *)
(* makes on them.                                                          *)
(***************************************************************************)
EXTENDS Integers, Sequences, FiniteSets

\* ------------------------------------------------------------------ bounds
\* Helpers constructed in one run (one per activate call).
MaxHelpers == 2

\* The text of every document the host opens; selections are ranges of it.
DocText == <<"a", "b">>

\* --------------------------------------------------------------- constants
None == 0

\* The windows the host has open.
Windows == {1, 2}

ViewStates == {"none", "editable", "readonly"}

NoDoc == [present |-> FALSE]

\* A freshly opened document: nothing selected, no search text, no flags.
NewDoc == [present |-> TRUE, search_text |-> <<>>, search_flags |-> {}]

\* What the active document's selection can be when a callback reads it:
\* nothing selected (<<>>), or the bounds of a non-empty range of the text.
SelectionBounds == {b \in (0..Len(DocText)) \X (0..Len(DocText)) : b[1] < b[2]}

Selections == SelectionBounds \cup {<<>>}

VARIABLES
    instances,   \* HighlightTextPlugin._instances : window -> helper (None = no key)
    helpers,     \* every HighlightTextWindowHelper constructed so far, by identity
    groups,      \* every gtk.ActionGroup constructed so far, by identity
    manager,     \* window -> its gtk.UIManager (action groups, ui fragments, merge ids)
    document,    \* window -> its active gedit.Document, or NoDoc
    view,        \* window -> state of its active gedit.View
    hostActive,  \* windows the host has activated and not yet deactivated
    last,        \* the host call that returned last, and how it ended
    pc           \* where a deactivate call that runs line by line stands

vars == <<instances, helpers, groups, manager, document, view, hostActive, last, pc>>

\* ------------------------------------------------- host objects (gtk, gedit)
\* gtk.UIManager.insert_action_group(group, -1): the group goes to the end.
insert_action_group(m, g) == [m EXCEPT !.action_groups = Append(@, g)]

\* gtk.UIManager.add_ui_from_string(ui_str): merges the fragment under a new
\* merge id, which is returned (here: m.last_merge_id of the result).
add_ui_from_string(m) == [m EXCEPT !.last_merge_id = @ + 1, !.ui = @ \cup {m.last_merge_id + 1}]

\* gtk.UIManager.remove_ui(merge_id)
remove_ui(m, id) == [m EXCEPT !.ui = @ \ {id}]

\* gtk.UIManager.remove_action_group(group)
remove_action_group(m, g) == [m EXCEPT !.action_groups = SelectSeq(@, LAMBDA x : x # g)]

\* gtk.ActionGroup.set_sensitive(b)
set_sensitive(grps, g, b) == [grps EXCEPT ![g].sensitive = b]

\* gtk.TextBuffer.get_has_selection()
get_has_selection(sel) == sel # <<>>

\* gtk.TextBuffer.get_text(start_iter, end_iter): the characters in between.
get_text(start, end) == SubSeq(DocText, start + 1, end)

\* gedit.Document.set_search_text(text, flags), as the text and flags handed over.
set_search_text(doc, text, flags) == [doc EXCEPT !.search_text = text, !.search_flags = flags]

\* gedit.View.get_editable() of a view that exists
get_editable(v) == v = "editable"

\* The action groups inserted in UI manager m, as a set.
GroupsOf(m) == {m.action_groups[k] : k \in 1..Len(m.action_groups)}

\* ------------------------------------------------ HighlightTextWindowHelper
\* __init__, up to the call of _insert_menu: the four fields.
NewHelper(plugin, window) == [plugin |-> plugin, window |-> window, ui_id |-> None, action_group |-> None]

\* _insert_menu: the helper's fields once the group g is built and the
\* fragment merged into manager m.
InsertMenuHelper(hrec, g, m) == [hrec EXCEPT !.action_group = g, !.ui_id = add_ui_from_string(m).last_merge_id]

\* _insert_menu: the window's UI manager afterwards.
InsertMenuManager(g, m) == add_ui_from_string(insert_action_group(m, g))

RemoveMenuKeepsGroup(hrec, m) == remove_ui(m, hrec.ui_id)

RemoveMenuKeepsUi(hrec, m) == remove_action_group(m, hrec.action_group)

\* _remove_menu: the window's UI manager afterwards (ensure_update only
\* flushes the pending redraw).
RemoveMenu(hrec, m) == remove_action_group(remove_ui(m, hrec.ui_id), hrec.action_group)

HelperDeactivateKeepsWindow(hrec) == [hrec EXCEPT !.action_group = None, !.plugin = None]

\* deactivate: the helper's fields afterwards.
HelperDeactivate(hrec) == [hrec EXCEPT !.action_group = None, !.plugin = None, !.window = None]

UpdateUiConditionNoDocTest(doc, current_view) == current_view # "none" /\ get_editable(current_view)

\* update_ui: the condition of the if.
UpdateUiCondition(doc, current_view) == doc.present /\ current_view # "none" /\ get_editable(current_view)

HelperUpdateUiNoEffect(hrec, grps) == grps

HelperUpdateUiDisables(hrec, grps) ==
    set_sensitive(grps, hrec.action_group, UpdateUiCondition(document[hrec.window], view[hrec.window]))

HelperUpdateUiAllGroups(hrec, grps) ==
    IF UpdateUiCondition(document[hrec.window], view[hrec.window])
    THEN [g \in DOMAIN grps |-> [sensitive |-> TRUE]]
    ELSE grps

\* update_ui: the action groups afterwards.
HelperUpdateUi(hrec, grps) ==
    IF UpdateUiCondition(document[hrec.window], view[hrec.window])
    THEN set_sensitive(grps, hrec.action_group, TRUE)
    ELSE grps

GetTextSelectionWholeText(sel) == IF get_has_selection(sel) THEN DocText ELSE <<>>

\* _get_text_selection, for a document that exists and whose selection is sel.
GetTextSelection(sel) ==
    IF get_has_selection(sel)
    THEN get_text(sel[1], sel[2])
    ELSE <<>>

\* _highlight_selection: the flags passed to set_search_text.
HighlightFlags == {"SEARCH_CASE_SENSITIVE"}

HighlightOutcomeGuarded(doc) == "ok"

\* _highlight_selection: how the call ends.  With no active document
\* get_active_document() is None and doc.get_has_selection() raises.
HighlightOutcome(doc) == IF doc.present THEN "ok" ELSE "AttributeError"

HighlightDocumentSkipsEmpty(doc, sel) ==
    IF doc.present /\ GetTextSelection(sel) # <<>>
    THEN set_search_text(doc, GetTextSelection(sel), HighlightFlags)
    ELSE doc

\* _highlight_selection: the active document afterwards (none is touched
\* when the call raises).
HighlightDocument(doc, sel) ==
    IF doc.present
    THEN set_search_text(doc, GetTextSelection(sel), HighlightFlags)
    ELSE doc

\* ------------------------------------------------------ HighlightTextPlugin
ThePlugin == 1

LookupOutcomeTolerant(inst, window) == "ok"

\* self._instances[window]: the lookup raises KeyError when the key is absent.
LookupOutcome(inst, window) == IF inst[window] = None THEN "KeyError" ELSE "ok"

InstancesActivateKeepsFirst(inst, window, h) == IF inst[window] = None THEN [inst EXCEPT ![window] = h] ELSE inst

\* activate: the dictionary afterwards.
InstancesActivate(inst, window, h) == [inst EXCEPT ![window] = h]

InstancesDeactivateKeepsKey(inst, window) == inst

\* deactivate: the dictionary afterwards (del self._instances[window]).
InstancesDeactivate(inst, window) == [inst EXCEPT ![window] = None]

IsConfigurableResultTrue == "True"

\* is_configurable: the value returned.
IsConfigurableResult == "False"

\* A returned host call: which operation, on which window, through which
\* helper, what selection it read, and whether it returned or raised.
\* result is the value a call returned, for the one call that returns one.
Call(op, window, h, sel, outcome) == [op |-> op, window |-> window, helper |-> h, sel |-> sel, outcome |-> outcome, result |-> "None"]

NoCall == Call("none", None, None, <<>>, "ok")

\* No deactivate call is under way.
Idle == [at |-> 0, window |-> None, helper |-> None, group |-> None, mgr |-> None, pending |-> FALSE]

DeactivateProgramClearsFirst ==
    <<"clear_action_group", "clear_plugin", "clear_window",
      "get_ui_manager", "remove_ui", "remove_action_group", "ensure_update", "del">>

\* The statements deactivate(window) runs after the lookup of line 85, in
\* source order: HighlightTextWindowHelper.deactivate with _remove_menu
\* inlined (lines 204-206 and 195-200, then 207-209), then line 86.
DeactivateProgram ==
    <<"get_ui_manager", "remove_ui", "remove_action_group", "ensure_update",
      "clear_action_group", "clear_plugin", "clear_window", "del">>

Init ==
    /\ instances = [w \in Windows |-> None]
    /\ helpers = <<>>
    /\ groups = <<>>
    /\ manager = [w \in Windows |-> [action_groups |-> <<>>, ui |-> {}, last_merge_id |-> 0]]
    /\ document = [w \in Windows |-> NoDoc]
    /\ view = [w \in Windows |-> "none"]
    /\ hostActive = {}
    /\ last = NoCall
    /\ pc = Idle

\* HighlightTextPlugin.activate(window).  A new gtk.ActionGroup starts with
\* the sensitivity the toolkit gives it, which this source does not set.
Activate(w) ==
    /\ pc = Idle
    /\ Len(helpers) < MaxHelpers
    /\ \E sens0 \in BOOLEAN :
        LET h == Len(helpers) + 1
            g == Len(groups) + 1
            hrec == InsertMenuHelper(NewHelper(ThePlugin, w), g, insert_action_group(manager[w], g))
        IN  /\ helpers' = Append(helpers, hrec)
            /\ groups' = HelperUpdateUi(hrec, Append(groups, [sensitive |-> sens0]))
            /\ manager' = [manager EXCEPT ![w] = InsertMenuManager(g, @)]
            /\ instances' = InstancesActivate(instances, w, h)
            /\ last' = Call("activate", w, h, <<>>, "ok")
    /\ hostActive' = hostActive \cup {w}
    /\ UNCHANGED <<document, view>>
    /\ UNCHANGED pc

\* HighlightTextPlugin.deactivate(window)
Deactivate(w) ==
    /\ pc = Idle
    /\ IF instances[w] # None
       THEN LET h == instances[w]
                hrec == helpers[h]
            IN  /\ manager' = [manager EXCEPT ![hrec.window] = RemoveMenu(hrec, @)]
                /\ helpers' = [helpers EXCEPT ![h] = HelperDeactivate(@)]
                /\ instances' = InstancesDeactivate(instances, w)
                /\ hostActive' = hostActive \ {w}
                /\ last' = Call("deactivate", w, h, <<>>, LookupOutcome(instances, w))
       ELSE /\ UNCHANGED <<manager, helpers, instances, hostActive>>
            /\ last' = Call("deactivate", w, None, <<>>, LookupOutcome(instances, w))
    /\ UNCHANGED <<groups, document, view>>
    /\ UNCHANGED pc

\* HighlightTextPlugin.update_ui(window)
UpdateUi(w) ==
    /\ pc = Idle
    /\ IF instances[w] # None
       THEN /\ groups' = HelperUpdateUi(helpers[instances[w]], groups)
            /\ last' = Call("update_ui", w, instances[w], <<>>, LookupOutcome(instances, w))
       ELSE /\ UNCHANGED groups
            /\ last' = Call("update_ui", w, None, <<>>, LookupOutcome(instances, w))
    /\ UNCHANGED <<instances, helpers, manager, document, view, hostActive>>
    /\ UNCHANGED pc

\* HighlightTextPlugin.is_configurable()
IsConfigurable ==
    /\ pc = Idle
    /\ last' = [Call("is_configurable", None, None, <<>>, "ok") EXCEPT !.result = IsConfigurableResult]
    /\ UNCHANGED <<instances, helpers, groups, manager, document, view, hostActive>>
    /\ UNCHANGED pc

\* The menu callback HighlightTextWindowHelper._highlight_selection of helper
\* h.  The host fires it only for an action whose group is inserted in the
\* window's UI manager and is sensitive.  sel is the selection the active
\* document has when the callback reads it (any, the user sets it at will).
HighlightSelection(h, sel) ==
    /\ pc = Idle
    /\ h \in 1..Len(helpers)
    /\ \E w \in Windows : helpers[h].action_group \in GroupsOf(manager[w])
    /\ groups[helpers[h].action_group].sensitive
    /\ document[helpers[h].window].present \/ sel = <<>>
    /\ LET w == helpers[h].window
       IN  /\ document' = [document EXCEPT ![w] = HighlightDocument(@, sel)]
           /\ last' = Call("highlight", w, h, sel, HighlightOutcome(document[w]))
    /\ UNCHANGED <<instances, helpers, groups, manager, view, hostActive>>
    /\ UNCHANGED pc

\* ------------------------------------------------------------ the host's side
\* The user opens a document in window w, or closes the active one.
HostOpenDocument(w) ==
    /\ pc = Idle
    /\ ~document[w].present
    /\ document' = [document EXCEPT ![w] = NewDoc]
    /\ last' = NoCall
    /\ UNCHANGED <<instances, helpers, groups, manager, view, hostActive>>
    /\ UNCHANGED pc

HostCloseDocument(w) ==
    /\ pc = Idle
    /\ document[w].present
    /\ document' = [document EXCEPT ![w] = NoDoc]
    /\ last' = NoCall
    /\ UNCHANGED <<instances, helpers, groups, manager, view, hostActive>>
    /\ UNCHANGED pc

\* The active view of window w changes (none, editable, read-only).
HostSetView(w, v) ==
    /\ pc = Idle
    /\ view[w] # v
    /\ view' = [view EXCEPT ![w] = v]
    /\ last' = NoCall
    /\ UNCHANGED <<instances, helpers, groups, manager, document, hostActive>>
    /\ UNCHANGED pc

Next ==
    \/ \E w \in Windows : Activate(w)
    \/ \E w \in Windows : Deactivate(w)
    \/ \E w \in Windows : UpdateUi(w)
    \/ \E h \in 1..MaxHelpers, sel \in Selections : HighlightSelection(h, sel)
    \/ \E w \in Windows : HostOpenDocument(w)
    \/ \E w \in Windows : HostCloseDocument(w)
    \/ \E w \in Windows, v \in ViewStates : HostSetView(w, v)
    \/ IsConfigurable

Spec == Init /\ [][Next]_vars

\* ------------------------------------------- deactivate, statement by statement
\* deactivate(window) enters: self._instances[window] of line 85 is looked
\* up (KeyError when absent) and the helper's deactivate is called.
DeactivateBegin(w) ==
    /\ pc = Idle
    /\ IF instances[w] # None
       THEN /\ pc' = [at |-> 1, window |-> w, helper |-> instances[w],
                      group |-> helpers[instances[w]].action_group, mgr |-> None, pending |-> FALSE]
            /\ last' = Call("deactivate", w, instances[w], <<>>, "running")
       ELSE /\ pc' = Idle
            /\ last' = Call("deactivate", w, None, <<>>, LookupOutcome(instances, w))
    /\ UNCHANGED <<instances, helpers, groups, manager, document, view, hostActive>>

\* The statement at pc raises: the call ends there, what was done stays.
Raise(error) ==
    /\ pc' = Idle
    /\ last' = Call("deactivate", pc.window, pc.helper, <<>>, error)
    /\ UNCHANGED <<instances, helpers, groups, manager, document, view, hostActive>>

\* The statement at pc has run; control moves to the next one.
Goto(next) ==
    /\ pc' = next
    /\ UNCHANGED last

\* One statement of DeactivateProgram.  A statement that dereferences a
\* field holding None raises.
DeactivateStep ==
    /\ pc.at # 0
    /\ LET label == DeactivateProgram[pc.at]
           h == pc.helper
           hrec == helpers[h]
           on == [pc EXCEPT !.at = @ + 1]
       IN  CASE label = "get_ui_manager" ->
                   IF hrec.plugin = None \/ hrec.window = None
                   THEN Raise("AttributeError")
                   ELSE /\ Goto([on EXCEPT !.mgr = hrec.window])
                        /\ UNCHANGED <<instances, helpers, groups, manager, document, view, hostActive>>
             [] label = "remove_ui" ->
                   IF pc.mgr = None
                   THEN Raise("UnboundLocalError")
                   ELSE /\ manager' = [manager EXCEPT ![pc.mgr] = remove_ui(@, hrec.ui_id)]
                        /\ Goto([on EXCEPT !.pending = TRUE])
                        /\ UNCHANGED <<instances, helpers, groups, document, view, hostActive>>
             [] label = "remove_action_group" ->
                   IF pc.mgr = None
                   THEN Raise("UnboundLocalError")
                   ELSE IF hrec.action_group = None
                   THEN Raise("TypeError")
                   ELSE /\ manager' = [manager EXCEPT ![pc.mgr] = remove_action_group(@, hrec.action_group)]
                        /\ Goto([on EXCEPT !.pending = TRUE])
                        /\ UNCHANGED <<instances, helpers, groups, document, view, hostActive>>
             [] label = "ensure_update" ->
                   IF pc.mgr = None
                   THEN Raise("UnboundLocalError")
                   ELSE IF hrec.plugin = None
                   THEN Raise("AttributeError")
                   ELSE /\ Goto([on EXCEPT !.pending = FALSE])
                        /\ UNCHANGED <<instances, helpers, groups, manager, document, view, hostActive>>
             [] label = "clear_action_group" ->
                   /\ helpers' = [helpers EXCEPT ![h].action_group = None]
                   /\ Goto(on)
                   /\ UNCHANGED <<instances, groups, manager, document, view, hostActive>>
             [] label = "clear_plugin" ->
                   /\ helpers' = [helpers EXCEPT ![h].plugin = None]
                   /\ Goto(on)
                   /\ UNCHANGED <<instances, groups, manager, document, view, hostActive>>
             [] label = "clear_window" ->
                   /\ helpers' = [helpers EXCEPT ![h].window = None]
                   /\ Goto(on)
                   /\ UNCHANGED <<instances, groups, manager, document, view, hostActive>>
             [] label = "del" ->
                   /\ instances' = InstancesDeactivate(instances, pc.window)
                   /\ hostActive' = hostActive \ {pc.window}
                   /\ pc' = Idle
                   /\ last' = Call("deactivate", pc.window, h, <<>>, "ok")
                   /\ UNCHANGED <<helpers, groups, manager, document, view>>

\* The host's calls, with deactivate run statement by statement.  The host
\* has one UI thread: nothing else runs while a call is under way.
NextSteps ==
    \/ \E w \in Windows : Activate(w)
    \/ \E w \in Windows : DeactivateBegin(w)
    \/ DeactivateStep
    \/ \E w \in Windows : UpdateUi(w)
    \/ \E h \in 1..MaxHelpers, sel \in Selections : HighlightSelection(h, sel)
    \/ \E w \in Windows : HostOpenDocument(w)
    \/ \E w \in Windows : HostCloseDocument(w)
    \/ \E w \in Windows, v \in ViewStates : HostSetView(w, v)
    \/ IsConfigurable

SpecSteps == Init /\ [][NextSteps]_vars

\* The host keeping to the plugin contract: activate(w) only for a window
\* without a helper, deactivate(w) only for a window with one.
NextWellFormed ==
    \/ \E w \in Windows : instances[w] = None /\ Activate(w)
    \/ \E w \in Windows : instances[w] # None /\ Deactivate(w)
    \/ \E w \in Windows : UpdateUi(w)
    \/ \E h \in 1..MaxHelpers, sel \in Selections : HighlightSelection(h, sel)
    \/ \E w \in Windows : HostOpenDocument(w)
    \/ \E w \in Windows : HostCloseDocument(w)
    \/ \E w \in Windows, v \in ViewStates : HostSetView(w, v)
    \/ IsConfigurable

SpecWellFormed == Init /\ [][NextWellFormed]_vars

\* ================================================================== claims
\* Whether the menu entry of helper h (one whose action group is set) is enabled.
Sensitive(h) == groups[helpers[h].action_group].sensitive

\* The keys of the dictionary.
Keys(inst) == {w \in Windows : inst[w] # None}

\* The characters of DocText strictly after offset b[1] up to offset b[2].
SelectedText(b) == [k \in 1..(b[2] - b[1]) |-> DocText[b[1] + k]]

\* C1: after every call, the key set of the window-to-helper dictionary is
\* exactly the set of windows activated and not yet deactivated.  It holds
\* for every sequence of host calls, the well-formed ones of the claim
\* included.
C1_KeysAreActivatedWindows == Keys(instances) = hostActive

\* Two windows were activated and one of them has just been deactivated.
C1_Witness ==
    /\ last.op = "deactivate" /\ last.outcome = "ok"
    /\ hostActive = Windows \ {last.window}
    /\ Len(helpers) = 2 /\ helpers[1].window # helpers[2].window

\* C2: when the highlight callback has run on a document with a non-empty
\* selection, the document's search text is the selected text, the
\* case-sensitive flag is set and the whole-word flag is not.
C2_HighlightSetsSelectedText ==
    (last.op = "highlight" /\ last.outcome = "ok" /\ last.sel # <<>>) =>
        /\ document[last.window].search_text = SelectedText(last.sel)
        /\ "SEARCH_CASE_SENSITIVE" \in document[last.window].search_flags
        /\ "SEARCH_ENTIRE_WORD" \notin document[last.window].search_flags

\* The callback ran on a selection that is a proper part of the text.
C2_Witness ==
    /\ last.op = "highlight" /\ last.outcome = "ok"
    /\ last.sel = <<1, 2>>
    /\ document[last.window].search_text = <<"b">>

\* C3: when the highlight callback has run on a document with no selection,
\* the document's search text is the empty string and the case-sensitive
\* flag is set, whatever the search text was before.
C3_HighlightNoSelectionSetsEmpty ==
    (last.op = "highlight" /\ last.outcome = "ok" /\ last.sel = <<>>) =>
        /\ document[last.window].search_text = <<>>
        /\ "SEARCH_CASE_SENSITIVE" \in document[last.window].search_flags

\* The callback ran with nothing selected in the other window while this
\* window's document keeps a non-empty search text from an earlier run.
C3_Witness ==
    /\ last.op = "highlight" /\ last.outcome = "ok" /\ last.sel = <<>>
    /\ document[last.window].search_text = <<>>
    /\ \E v \in Windows : document[v].present /\ document[v].search_text # <<>>

\* C4: a deactivate(w) that returns leaves neither the UI fragment nor the
\* action group of w's helper in w's UI manager.
C4_DeactivateRemovesMenu ==
    [][(last'.op = "deactivate" /\ instances[last'.window] # None) =>
            /\ last'.outcome = "ok"
            /\ helpers[instances[last'.window]].ui_id \notin manager'[last'.window].ui
            /\ helpers[instances[last'.window]].action_group \notin GroupsOf(manager'[last'.window])]_vars

\* A deactivate has returned and the window's UI manager holds nothing of
\* the plugin any more.
C4_Witness ==
    /\ last.op = "deactivate" /\ last.outcome = "ok"
    /\ manager[last.window].ui = {}
    /\ manager[last.window].action_groups = <<>>
    /\ manager[last.window].last_merge_id > 0

\* C5 as stated: after a helper's deactivate all four fields are empty.
C5_AllFourFieldsEmpty ==
    (last.op = "deactivate" /\ last.outcome = "ok") =>
        /\ helpers[last.helper].plugin = None
        /\ helpers[last.helper].window = None
        /\ helpers[last.helper].ui_id = None
        /\ helpers[last.helper].action_group = None

\* C5 amended: after a helper's deactivate its three references (plugin
\* root, window, action group) are empty, and its UI identifier still is
\* the merge id it got at construction.
C5_ReferencesEmptyUiIdKept ==
    (last.op = "deactivate" /\ last.outcome = "ok") =>
        /\ helpers[last.helper].plugin = None
        /\ helpers[last.helper].window = None
        /\ helpers[last.helper].action_group = None
        /\ helpers[last.helper].ui_id # None
        /\ helpers[last.helper].ui_id <= manager[last.window].last_merge_id

\* A helper has been deactivated while another one is still in use.
C5_Witness ==
    /\ last.op = "deactivate" /\ last.outcome = "ok"
    /\ helpers[last.helper].window = None
    /\ \E h \in 1..Len(helpers) : helpers[h].window # None

\* C6 as stated: after any update_ui (the one the constructor runs
\* included) the menu entry is enabled only if the window has a document
\* and an editable view.
C6_EnabledOnlyIfEditable ==
    (last.op \in {"update_ui", "activate"} /\ last.outcome = "ok") =>
        (Sensitive(last.helper) => UpdateUiCondition(document[last.window], view[last.window]))

\* C7: an update_ui on a window with no active document changes no action
\* group's sensitivity, whatever the view is.
C7_NoDocumentNoEnable ==
    [][(last'.op = "update_ui" /\ ~document[last'.window].present) => groups' = groups]_vars

\* update_ui has returned on a window with an editable view and no
\* document, and the entry is disabled.
C7_Witness ==
    /\ last.op = "update_ui" /\ last.outcome = "ok"
    /\ ~document[last.window].present
    /\ view[last.window] = "editable"
    /\ ~Sensitive(last.helper)

\* C8: when activate(w) has returned, the new helper holds its UI identifier
\* and action group, both are in w's UI manager, and the entry is enabled
\* if w has a document and an editable view.
C8_ActivateInsertsAndUpdates ==
    (last.op = "activate") =>
        /\ instances[last.window] = last.helper
        /\ helpers[last.helper].ui_id # None
        /\ helpers[last.helper].action_group # None
        /\ helpers[last.helper].ui_id \in manager[last.window].ui
        /\ helpers[last.helper].action_group \in GroupsOf(manager[last.window])
        /\ UpdateUiCondition(document[last.window], view[last.window]) => Sensitive(last.helper)

\* activate has returned on a window with a document and an editable view.
C8_Witness ==
    /\ last.op = "activate"
    /\ UpdateUiCondition(document[last.window], view[last.window])
    /\ Sensitive(last.helper)
    /\ helpers[last.helper].ui_id \in manager[last.window].ui

\* C9: deactivate(w) for a window with no dictionary entry ends in a
\* KeyError and changes neither the dictionary nor any window's UI.
C9_DeactivateMissingRaises ==
    [][(last'.op = "deactivate" /\ instances[last'.window] = None) =>
            /\ last'.outcome = "KeyError"
            /\ UNCHANGED <<instances, helpers, groups, manager, document, view, hostActive>>]_vars

\* deactivate has raised for a window that was activated and deactivated
\* before, while the other window is active.
C9_Witness ==
    /\ last.op = "deactivate" /\ last.outcome = "KeyError"
    /\ instances[last.window] = None
    /\ manager[last.window].last_merge_id > 0
    /\ hostActive # {}

\* C10: the highlight callback on a window with no active document ends in
\* an AttributeError and changes no document, helper, dictionary entry or
\* menu.
C10_HighlightNoDocumentRaises ==
    [][(last'.op = "highlight" /\ ~document[last'.window].present) =>
            /\ last'.outcome = "AttributeError"
            /\ UNCHANGED <<document, view, instances, helpers, groups, manager>>]_vars

\* The callback has raised in a window without a document while the other
\* window's document has a search text set.
C10_Witness ==
    /\ last.op = "highlight" /\ last.outcome = "AttributeError"
    /\ ~document[last.window].present
    /\ \E v \in Windows : document[v].present /\ document[v].search_flags # {}

\* The helpers whose menu contribution (action group) is inserted in window
\* w's UI manager.
InsertedHelpers(w) == {h \in 1..Len(helpers) : helpers[h].action_group # None /\ helpers[h].action_group \in GroupsOf(manager[w])}

\* C11 as stated: under every sequence of host calls, repeated activate
\* included, a window has at most one helper with its menu contribution
\* inserted, and after deactivate(w) has returned w's UI holds no
\* contribution of any helper and the dictionary has no entry for w.
C11_AtMostOneHelperPerWindow ==
    /\ \A w \in Windows : Cardinality(InsertedHelpers(w)) <= 1
    /\ (last.op = "deactivate" /\ last.outcome = "ok") =>
          /\ instances[last.window] = None
          /\ manager[last.window].ui = {}
          /\ manager[last.window].action_groups = <<>>

\* C13: an activate(w) while w has a dictionary entry returns normally,
\* builds a new helper, adds one more fragment and one more action group to
\* w's UI manager next to the old ones, and leaves the dictionary with the
\* same keys and the new helper as w's entry.
C13_SecondActivateOverwrites ==
    [][(last'.op = "activate" /\ instances[last'.window] # None) =>
            /\ last'.outcome = "ok"
            /\ last'.helper = Len(helpers) + 1
            /\ instances'[last'.window] = last'.helper
            /\ Keys(instances') = Keys(instances)
            /\ Cardinality(manager'[last'.window].ui) = Cardinality(manager[last'.window].ui) + 1
            /\ manager[last'.window].ui \subseteq manager'[last'.window].ui
            /\ Len(manager'[last'.window].action_groups) = Len(manager[last'.window].action_groups) + 1
            /\ GroupsOf(manager[last'.window]) \subseteq GroupsOf(manager'[last'.window])]_vars

\* The same window was activated twice in a row: two fragments and two
\* groups are in its UI and the entry is the second helper.
C13_Witness ==
    /\ last.op = "activate" /\ last.outcome = "ok"
    /\ last.helper = 2 /\ instances[last.window] = 2
    /\ helpers[1].window = last.window
    /\ Cardinality(manager[last.window].ui) = 2
    /\ Len(manager[last.window].action_groups) = 2

\* C15: no step ever turns an enabled action group into a disabled one.
C15_NeverDisabled ==
    [][\A g \in 1..Len(groups) : groups[g].sensitive => groups'[g].sensitive]_vars

\* update_ui has returned on a window whose document is gone or whose view
\* is not editable, and the entry of its helper is still enabled.
C15_Witness ==
    /\ last.op = "update_ui" /\ last.outcome = "ok"
    /\ ~UpdateUiCondition(document[last.window], view[last.window])
    /\ Sensitive(last.helper)
    /\ helpers[last.helper].window = last.window

\* C17: a plugin call on window w changes, for every other window v, neither
\* the dictionary entry, nor the UI manager, nor the active document, nor
\* the fields or the enablement of any helper of v; update_ui and the
\* highlight callback also leave the dictionary's key set as it was.
C17_OtherWindowsUntouched ==
    [][(last'.op \in {"activate", "deactivate", "update_ui", "highlight"}) =>
            /\ \A v \in Windows \ {last'.window} :
                /\ instances'[v] = instances[v]
                /\ manager'[v] = manager[v]
                /\ document'[v] = document[v]
                /\ view'[v] = view[v]
                /\ \A h \in 1..Len(helpers) :
                    (helpers[h].window = v) =>
                        /\ helpers'[h] = helpers[h]
                        /\ groups'[helpers[h].action_group] = groups[helpers[h].action_group]
            /\ (last'.op \in {"update_ui", "highlight"}) => Keys(instances') = Keys(instances)]_vars

\* update_ui has just enabled the entry of one window while the other
\* window has a helper whose entry is disabled although that window, too,
\* has a document and an editable view.
C17_Witness ==
    /\ last.op = "update_ui" /\ last.outcome = "ok"
    /\ Sensitive(last.helper)
    /\ \E v \in Windows \ {last.window} :
        /\ instances[v] # None
        /\ ~Sensitive(instances[v])
        /\ UpdateUiCondition(document[v], view[v])

\* C12: is_configurable() returns False in every state and changes neither
\* the dictionary nor any helper, action group or UI manager.
C12_IsConfigurableFalse ==
    [][(last'.op = "is_configurable") =>
            /\ last'.result = "False"
            /\ last'.outcome = "ok"
            /\ UNCHANGED <<instances, helpers, groups, manager, document, view, hostActive>>]_vars

\* is_configurable has returned while both windows are activated.
C12_Witness ==
    /\ last.op = "is_configurable"
    /\ last.result = "False"
    /\ Keys(instances) = Windows

\* C16: when the host keeps to the contract, between calls every window's
\* UI manager holds exactly one fragment and one action group of the plugin
\* if the window is in the dictionary and none otherwise, through any
\* activate / deactivate / re-activate cycle; a deactivated helper is never
\* an entry of the dictionary again.
C16_OneMenuPerActiveWindow ==
    /\ \A w \in Windows :
        /\ Cardinality(manager[w].ui) = (IF instances[w] # None THEN 1 ELSE 0)
        /\ Len(manager[w].action_groups) = (IF instances[w] # None THEN 1 ELSE 0)
        /\ instances[w] # None =>
            /\ helpers[instances[w]].window = w
            /\ manager[w].ui = {helpers[instances[w]].ui_id}
            /\ manager[w].action_groups = <<helpers[instances[w]].action_group>>
    /\ \A h \in 1..Len(helpers) :
        helpers[h].window = None => \A w \in Windows : instances[w] # h

\* A window has been activated, deactivated and activated again: its entry
\* is the second helper, its single fragment has the second merge id.
C16_Witness ==
    /\ last.op = "activate"
    /\ Len(helpers) = 2
    /\ helpers[1].window = None
    /\ instances[last.window] = 2
    /\ manager[last.window].ui = {2}
    /\ Len(manager[last.window].action_groups) = 1

\* C14: while a deactivate(w) is under way the dictionary still maps w to
\* the helper being torn down; the action group leaves the UI manager only
\* after the fragment has; a reference of the helper is cleared only after
\* fragment and group are removed and the refresh is forced; no statement
\* finds a reference it needs already cleared; and when the call has
\* returned the entry is gone and the references are cleared.
C14_DeactivationOrder ==
    /\ pc.at # 0 =>
        /\ instances[pc.window] = pc.helper
        /\ pc.group \notin GroupsOf(manager[pc.window]) =>
              helpers[pc.helper].ui_id \notin manager[pc.window].ui
        /\ (helpers[pc.helper].window = None \/ helpers[pc.helper].plugin = None \/ helpers[pc.helper].action_group = None) =>
              /\ helpers[pc.helper].ui_id \notin manager[pc.window].ui
              /\ pc.group \notin GroupsOf(manager[pc.window])
              /\ ~pc.pending
    /\ last.op = "deactivate" => last.outcome \in {"running", "ok", "KeyError"}
    /\ (last.op = "deactivate" /\ last.outcome = "ok") =>
        /\ instances[last.window] = None
        /\ helpers[last.helper].window = None
        /\ helpers[last.helper].plugin = None
        /\ helpers[last.helper].action_group = None

\* The teardown has cleared the helper's references and the dictionary
\* entry is about to be deleted.
C14_Witness ==
    /\ pc.at # 0
    /\ DeactivateProgram[pc.at] = "del"
    /\ helpers[pc.helper].window = None
    /\ instances[pc.window] = pc.helper
    /\ ~pc.pending

====
